---- MODULE Spec2Model ----
(***************************************************************************)
(* A model of TermcapParser (src/termcapparser.cc): the adapter between    *)
(* the terminal engine and the screen buffer model (State).                *)
(*                                                                         *)
(*   SpecFilter   data_input, one loop iteration per step                  *)
(*   Spec         a session: the constructor, then set_terminal_size,      *)
(*                term_data, clear_buffer and get_state                    *)
(*                (one page copy per step) in any order                    *)
(*   SpecUpdate   update_display, notified any run, incremental sync        *)
(*                enabled or disabled                                      *)
(*   SpecResize   set_terminal_size with any sizes, and                    *)
(*                replace_standalone_linefeeds                             *)
(*   SpecClassify is_combining_character on any code point                 *)
(*   SpecWalk     the chain walk of copy_term_content_to_cache on a row    *)
(*                of any content, one iteration per step                   *)
(***************************************************************************)
EXTENDS Integers, Sequences, FiniteSets, TLC

(***************************************************************************)
(* Bounds of the model.                                                    *)
(***************************************************************************)
\* longest chunk given to data_input
MaxLen == 16
\* most ESC bytes in a chunk
MaxEsc == 2
\* bytes of foreign memory mapped behind the chunk; a read further out faults
MaxOverrun == 4
\* most lines the engine prints in a session
MaxLines == 4
\* a resize asks for a terminal MaxSize columns wide and 1..MaxSize rows high
MaxSize == 2
\* longest run of code points an engine notification carries
MaxRun == 3
\* highest code point classified
MaxChr == 65600
\* most cells in the storage of the row whose chains are walked
MaxCells == 3
\* most characters a chain walk gathers before the model stops following it
MaxSteps == 6

(***************************************************************************)
(* Program constants.                                                      *)
(***************************************************************************)
\* '\033'
ESC == 27
\* 'P'
CharP == 80
\* pos += 7
DcsSkip == 7
\* initial_terminal_width, initial_terminal_height, initial_buffer_height
initial_terminal_width == 80
initial_terminal_height == 24
initial_buffer_height == 100000

VARIABLES
  \* data_input: the chunk, its length, the loop's locals, the control point
  data, len, pos, prev, fpc,
  \* the (start, length) arguments of every data_input_filtered call, and the
  \* bytes term_data received from each
  slices, fed,
  \* memory behind the chunk, as far as the loop has read it
  oob,
  \* highest index the loop has read (-1: none)
  lastRead,
  \* TermcapParser: the flag, inst (width, height, cfg), the palette member
  enable_update_display, inst, palette,
  \* inst->term, the engine
  term,
  \* the screen buffer model (State)
  state,
  \* get_state: the control point and the locals offset, buffer_line_count
  spc, offset, buffer_line_count,
  \* what the call in progress, or the last one, did to engine and model
  log,
  \* the model as the first of the get_state calls made in a row left it
  \* (empty: another call was the last one), whether two were made in a row,
  \* and whether incremental sync was switched on after the first of them
  lastState, repeated, switchedOn,
  \* is_combining_character: the code point last classified (-1: none yet) and
  \* the result
  cp, combining,
  \* the chain walk of copy_term_content_to_cache on one row: the cc_next of
  \* each cell of the row's storage, the column, absolute_offset, the number
  \* of characters gathered, the control point
  cc, wcol, wabs, wlen, wpc

filterVars == <<data, len, pos, prev, fpc, slices, fed, oob, lastRead>>

sessionVars == <<enable_update_display, inst, palette, term, state, spc, offset,
                 buffer_line_count, log, lastState, repeated, switchedOn>>

classVars == <<cp, combining>>

walkVars == <<cc, wcol, wabs, wlen, wpc>>

vars == <<data, len, pos, prev, fpc, slices, fed, oob, lastRead,
          enable_update_display, inst, palette, term, state, spc, offset,
          buffer_line_count, log, lastState, repeated, switchedOn,
          cp, combining, cc, wcol, wabs, wlen, wpc>>

(***************************************************************************)
(* Input chunks: every byte string of at most MaxLen bytes with at most    *)
(* MaxEsc ESC bytes, each followed by 'P' or not; the other bytes are      *)
(* a, b, c, d by position.                                                 *)
(***************************************************************************)
Filler(i) == 97 + ((i - 1) % 4)

Byte == {ESC, CharP, 97}

\* the chunk of n bytes with ESC at the indices E (from 1) and 'P' right after
\* those of F
Chunk(n, E, F) ==
  [i \in 1..n |-> IF i \in E THEN ESC
                  ELSE IF (i - 1) \in F THEN CharP
                  ELSE Filler(i)]

(***************************************************************************)
(* Memory as data_input sees it: data[0..len-1] is the chunk, whatever     *)
(* lies behind it is not the caller's.                                     *)
(***************************************************************************)
MemAt(m, p) == IF p < len THEN data[p + 1] ELSE m[p]

Mapped(p) == p < len + MaxOverrun

\* the ways memory m can turn out at index p
Ext(m, p) == IF p < len \/ p \in DOMAIN m THEN {m} ELSE {m @@ (p :> b) : b \in Byte}

\* line 162: data[pos] == '\033' && (pos != len - 1 && data[pos + 1] == 'P')
IsIntroducer(m, p) == MemAt(m, p) = ESC /\ p # len - 1 /\ MemAt(m, p + 1) = CharP

\* the highest index line 162 reads at p
ReadsUpTo(m, p) == IF MemAt(m, p) = ESC /\ p # len - 1 THEN p + 1 ELSE p

\* a skip one byte short
SkipPosShort(p) == p + DcsSkip

\* lines 165 and 160: pos += 7, then the loop's ++pos
SkipPos(p) == p + DcsSkip + 1

\* the bytes term_data reads from (data + start, n)
Slice(m, start, n) == [k \in 1..n |-> MemAt(m, start + k - 1)]

\* lines 173-178: data_input_filtered(data + start, n)
data_input_filtered(m, start, n) ==
  /\ slices' = Append(slices, <<start, n>>)
  /\ fed' = Append(fed, Slice(m, start, n))

(***************************************************************************)
(* data_input                                                              *)
(***************************************************************************)
\* lines 156-158: the call
data_input_call ==
  /\ fpc = "idle"
  /\ \E n \in 0..MaxLen :
       \E E \in {T \in SUBSET (1..n) : Cardinality(T) <= MaxEsc} :
         \E F \in SUBSET E :
           /\ data' = Chunk(n, E, F)
           /\ len' = n
  /\ pos' = 0
  /\ prev' = 0
  /\ slices' = <<>>
  /\ fed' = <<>>
  /\ oob' = <<>>
  /\ lastRead' = -1
  /\ fpc' = "loop"
  /\ UNCHANGED <<sessionVars, classVars, walkVars>>

\* lines 160-168: one iteration at an index inside the chunk
data_input_loop ==
  /\ fpc = "loop"
  /\ pos < len
  /\ lastRead' = IF ReadsUpTo(oob, pos) > lastRead THEN ReadsUpTo(oob, pos) ELSE lastRead
  /\ IF IsIntroducer(oob, pos)
       THEN /\ data_input_filtered(oob, prev, pos - prev)
            /\ pos' = SkipPos(pos)
            /\ prev' = SkipPos(pos)
       ELSE /\ pos' = pos + 1
            /\ UNCHANGED <<prev, slices, fed>>
  /\ UNCHANGED <<data, len, oob, fpc>>
  /\ UNCHANGED <<sessionVars, classVars, walkVars>>

\* lines 160-168: one iteration at an index behind the chunk: the bytes read
\* are whatever the memory there holds
data_input_overrun ==
  /\ fpc = "loop"
  /\ pos > len
  /\ Mapped(pos)
  /\ \E m1 \in Ext(oob, pos) :
       /\ MemAt(m1, pos) = ESC => Mapped(pos + 1)
       /\ \E m2 \in (IF MemAt(m1, pos) = ESC THEN Ext(m1, pos + 1) ELSE {m1}) :
            /\ oob' = m2
            /\ lastRead' = IF ReadsUpTo(m2, pos) > lastRead
                             THEN ReadsUpTo(m2, pos) ELSE lastRead
            /\ IF IsIntroducer(m2, pos)
                 THEN /\ data_input_filtered(m2, prev, pos - prev)
                      /\ pos' = SkipPos(pos)
                      /\ prev' = SkipPos(pos)
                 ELSE /\ pos' = pos + 1
                      /\ UNCHANGED <<prev, slices, fed>>
  /\ UNCHANGED <<data, len, fpc>>
  /\ UNCHANGED <<sessionVars, classVars, walkVars>>

\* a read behind the chunk hits memory that is not mapped
data_input_fault ==
  /\ fpc = "loop"
  /\ pos > len
  /\ fpc' = "fault"
  /\ lastRead' = IF pos > lastRead THEN pos ELSE lastRead
  /\ UNCHANGED <<data, len, pos, prev, slices, fed, oob>>
  /\ UNCHANGED <<sessionVars, classVars, walkVars>>

\* line 170: the loop has ended, the rest is flushed
data_input_return ==
  /\ fpc = "loop"
  /\ pos = len
  /\ data_input_filtered(oob, prev, len - prev)
  /\ fpc' = "done"
  /\ UNCHANGED <<data, len, pos, prev, oob, lastRead>>
  /\ UNCHANGED <<sessionVars, classVars, walkVars>>

\* a classifier whose first range stops one code point early
is_combining_character_short(chr) ==
  IF chr < 768 THEN FALSE
  ELSE IF chr >= 768 /\ chr < 879 THEN TRUE
  ELSE IF chr >= 7616 /\ chr <= 7654 THEN TRUE
  ELSE IF chr >= 7676 /\ chr <= 7679 THEN TRUE
  ELSE IF chr >= 8400 /\ chr <= 8432 THEN TRUE
  ELSE IF chr >= 65056 /\ chr <= 65062 THEN TRUE
  ELSE FALSE

(***************************************************************************)
(* is_combining_character                                                  *)
(***************************************************************************)
\* lines 31-57
is_combining_character(chr) ==
  IF chr < 768 THEN FALSE
  ELSE IF chr >= 768 /\ chr <= 879 THEN TRUE
  ELSE IF chr >= 7616 /\ chr <= 7654 THEN TRUE
  ELSE IF chr >= 7676 /\ chr <= 7679 THEN TRUE
  ELSE IF chr >= 8400 /\ chr <= 8432 THEN TRUE
  ELSE IF chr >= 65056 /\ chr <= 65062 THEN TRUE
  ELSE FALSE

\* a call of is_combining_character on any code point
classify ==
  /\ cp = 0 - 1
  /\ \E c \in 0..MaxChr :
       /\ cp' = c
       /\ combining' = is_combining_character(c)
  /\ UNCHANGED <<filterVars, sessionVars, walkVars>>

ClassInit ==
  /\ cp = 0 - 1
  /\ combining = FALSE

(***************************************************************************)
(* The screen buffer model (State): a geometry, a palette, and for every   *)
(* row offset -buffer_size .. height-1 a line attribute and width cells.   *)
(* A cell never written has no code points.                                *)
(***************************************************************************)
NoCell == [chars |-> <<>>, attr |-> 0]

NoRow(w) == [lattr |-> 0, cells |-> [c \in 1..w |-> NoCell]]

InModel(st, row, col) ==
  /\ row >= 0 - st.buffer_size
  /\ row < st.height
  /\ col >= 0
  /\ col < st.width

\* State::resize(width, height, buffer_size): the geometry is declared; what
\* was written inside the new geometry stays
StateResize(st, w, h, n) ==
  [st EXCEPT !.width = w, !.height = h, !.buffer_size = n,
     !.rows = [r \in (0 - n)..(h - 1) |->
                 [lattr |-> IF r \in DOMAIN st.rows THEN st.rows[r].lattr ELSE 0,
                  cells |-> [c \in 1..w |->
                               IF r \in DOMAIN st.rows /\ c <= st.width
                                 THEN st.rows[r].cells[c] ELSE NoCell]]]]

\* State::resize_display(width, height): the scrollback length stays
StateResizeDisplay(st, w, h) == StateResize(st, w, h, st.buffer_size)

\* State::set_palette
StateSetPalette(st, p) == [st EXCEPT !.palette = p]

\* State::get_row_internal(row).set_attributes(lattr)
StateSetAttributes(st, row, lattr) ==
  IF row \in DOMAIN st.rows THEN [st EXCEPT !.rows[row].lattr = lattr] ELSE st

\* State::set_cell(row, col, characters, attr); a write outside the declared
\* geometry is rejected
StateSetCell(st, row, col, chars, attr) ==
  IF InModel(st, row, col)
    THEN [st EXCEPT !.rows[row].cells[col + 1] = [chars |-> chars, attr |-> attr]]
    ELSE st

\* the writes of a log applied to the model, in order
RECURSIVE Apply(_, _, _)
Apply(st, evs, k) ==
  IF k > Len(evs) THEN st
  ELSE LET e == evs[k] IN
    Apply(IF e.op = "set_cell" THEN StateSetCell(st, e.row, e.col, e.chars, e.attr)
          ELSE IF e.op = "set_attributes" THEN StateSetAttributes(st, e.row, e.lattr)
          ELSE st,
          evs, k + 1)

(***************************************************************************)
(* update_display                                                          *)
(***************************************************************************)
SetCellEv(by, row, col, chars, attr) ==
  [op |-> "set_cell", by |-> by, row |-> row, col |-> col, chars |-> chars, attr |-> attr]

SetAttributesEv(by, row, lattr) ==
  [op |-> "set_attributes", by |-> by, row |-> row, lattr |-> lattr]

\* a test that forgets the combining characters
StartsCellAlways(str, i) == i # 1

\* a test that forgets the first code point
StartsCellAtFirst(str, i) == ~is_combining_character(str[i])

\* line 277: the code point at index i (from 1) of the run flushes the cell
\* gathered so far
StartsCell(str, i) == i # 1 /\ ~is_combining_character(str[i])

\* lines 275-288: the loop from index i on, with x and chr as they stand, and
\* the flush behind it
RECURSIVE UpdateLoop(_, _, _, _, _, _)
UpdateLoop(str, i, x, y, chr, attr) ==
  IF i > Len(str)
    THEN IF chr # <<>> THEN <<SetCellEv("sync", y, x, chr, attr)>> ELSE <<>>
    ELSE IF StartsCell(str, i)
           THEN <<SetCellEv("sync", y, x, chr, attr)>>
                  \o UpdateLoop(str, i + 1, x + 1, y, <<str[i]>>, attr)
           ELSE UpdateLoop(str, i + 1, x, y, Append(chr, str[i]), attr)

\* an update_display without the test of the flag
UpdateDisplayEvsUnguarded(enabled, x, y, str, attr, lattr) ==
  <<SetAttributesEv("sync", y, lattr)>> \o UpdateLoop(str, 1, x, y, <<>>, attr)

\* lines 267-289: what one call writes, in order
UpdateDisplayEvs(enabled, x, y, str, attr, lattr) ==
  IF ~enabled THEN <<>>
  ELSE <<SetAttributesEv("sync", y, lattr)>> \o UpdateLoop(str, 1, x, y, <<>>, attr)


(***************************************************************************)
(* The engine (inst->term).  Its lines are kept by number: line 0 is a     *)
(* blank line, line i >= 1 is the i-th line the engine printed.  What a    *)
(* line holds follows from its number: text in its first three columns,    *)
(* each cell a base character and up to two combining characters; line 1   *)
(* is A, B + combining acute, C + two marks.  Every fourth line from       *)
(* line 2 on starts with a combining acute that has no base.               *)
(***************************************************************************)
HasText(id, c) == id # 0 /\ c < 3

StartsWithMark(id, c) == id % 4 = 2 /\ c = 0

\* the base character of column c of line id
LineChr(id, c) ==
  IF ~HasText(id, c) THEN 32
  ELSE IF StartsWithMark(id, c) THEN 769
  ELSE 64 + 3 * (id - 1) + c + 1

\* how many combining characters follow it
Marks(id, c) ==
  IF ~HasText(id, c) \/ StartsWithMark(id, c) THEN 0 ELSE (id + c + 2) % 3

\* the attribute of the cell
LineAttr(id, c) == IF ~HasText(id, c) THEN 0 ELSE IF c < 2 THEN 1 + (id % 2) ELSE 3

\* the line attribute
LineLattr(id) == id % 2

\* the j-th combining character of a cell
MarkChr(j) == 768 + j

\* the columns of line id before column c that have at least j marks
MarkedBefore(id, c, j) == Cardinality({b \in 0..(c - 1) : Marks(id, b) >= j})

\* where, in the line's cell array (from 0), the j-th combining character of
\* column c sits: behind the cols base cells, all first marks and then all
\* second marks
CcIndex(id, cols, c, j) ==
  IF j = 1 THEN cols + MarkedBefore(id, c, 1)
  ELSE cols + MarkedBefore(id, cols, 1) + MarkedBefore(id, c, 2)

\* the termline of line id at width cols: chars[k + 1] is the cell at index k,
\* cc_next the relative offset of the next cell of the chain, 0 at its end
NativeLine(id, cols) ==
  LET n1 == MarkedBefore(id, cols, 1)
      n2 == MarkedBefore(id, cols, 2)
      OwnerOf(k, j) == CHOOSE c \in 0..(cols - 1) :
                         Marks(id, c) >= j /\ CcIndex(id, cols, c, j) = k
  IN [lattr |-> LineLattr(id),
      chars |-> [k1 \in 1..(cols + n1 + n2) |->
        LET k == k1 - 1 IN
        IF k < cols
          THEN [chr |-> LineChr(id, k), attr |-> LineAttr(id, k),
                cc_next |-> IF Marks(id, k) = 0 THEN 0 ELSE CcIndex(id, cols, k, 1) - k]
        ELSE IF k < cols + n1
          THEN [chr |-> MarkChr(1), attr |-> 9,
                cc_next |-> IF Marks(id, OwnerOf(k, 1)) >= 2
                              THEN CcIndex(id, cols, OwnerOf(k, 1), 2) - k ELSE 0]
        ELSE [chr |-> MarkChr(2), attr |-> 9, cc_next |-> 0]]]

\* the text of column c of line id as the engine notifies it
Cluster(id, c) == <<LineChr(id, c)>> \o [j \in 1..Marks(id, c) |-> MarkChr(j)]

\* the columns in which line id differs from the line old painted in its row
Changed(old, id, cols) ==
  {c \in 0..(cols - 1) : Cluster(old, c) # Cluster(id, c) \/ LineAttr(old, c) # LineAttr(id, c)}

\* the runs the engine notifies for line id over the columns of cs from
\* column c on: neighbouring cells of one attribute; x, str and attr are the
\* run gathered so far (str empty: none)
RECURSIVE RunsFrom(_, _, _, _, _, _, _)
RunsFrom(id, cols, cs, c, x, str, attr) ==
  LET run == IF str = <<>> THEN <<>> ELSE <<[x |-> x, str |-> str, attr |-> attr]>> IN
  IF c >= cols \/ \A b \in cs : b < c THEN run
  ELSE IF c \notin cs
         THEN run \o RunsFrom(id, cols, cs, c + 1, 0, <<>>, 0)
  ELSE IF str # <<>> /\ LineAttr(id, c) = attr
         THEN RunsFrom(id, cols, cs, c + 1, x, str \o Cluster(id, c), attr)
         ELSE run \o RunsFrom(id, cols, cs, c + 1, c, Cluster(id, c), LineAttr(id, c))

Runs(old, id, cols) == RunsFrom(id, cols, Changed(old, id, cols), 0, 0, <<>>, 0)

\* sblines(term)
sblines(t) == Len(t.sb)

\* the line at row offset o: scrollback below 0, the screen from 0
LineAt(t, o) == IF o < 0 THEN t.sb[sblines(t) + o + 1] ELSE t.screen[o + 1]

\* the line the display shows in row r
Shown(t, r) == LineAt(t, t.disptop + r)

UpdateDisplayEv(x, y, str, attr, lattr) ==
  [op |-> "update_display", x |-> x, y |-> y, str |-> str, attr |-> attr, lattr |-> lattr]

\* the notifications of the runs rs (from the k-th on) of display row y, each
\* followed by what update_display writes for it
RECURSIVE NotifyRuns(_, _, _, _, _)
NotifyRuns(enabled, rs, k, y, lattr) ==
  IF k > Len(rs) THEN <<>>
  ELSE <<UpdateDisplayEv(rs[k].x, y, rs[k].str, rs[k].attr, lattr)>>
         \o UpdateDisplayEvs(enabled, rs[k].x, y, rs[k].str, rs[k].attr, lattr)
         \o NotifyRuns(enabled, rs, k + 1, y, lattr)

\* term_update: every display row that shows another line than the one painted
\* is painted, and the cells that change are notified run by run
RECURSIVE RenderEvs(_, _, _)
RenderEvs(enabled, t, r) ==
  IF r >= t.rows THEN <<>>
  ELSE (IF t.disptext[r + 1] # Shown(t, r)
          THEN NotifyRuns(enabled, Runs(t.disptext[r + 1], Shown(t, r), t.cols), 1, r,
                          LineLattr(Shown(t, r)))
          ELSE <<>>)
         \o RenderEvs(enabled, t, r + 1)

term_update(t) == [t EXCEPT !.disptext = [r1 \in 1..t.rows |-> Shown(t, r1 - 1)]]

\* term_scroll(term, rel, where), without the painting: the top of the display
\* moves to where (from the live screen when rel < 0, from the top of the
\* scrollback when rel > 0, from where it is when rel = 0), kept inside
\* -sblines .. 0
Scrolled(t, rel, where) ==
  LET from == IF rel < 0 THEN 0 ELSE IF rel > 0 THEN 0 - sblines(t) ELSE t.disptop
      to == from + where
  IN [t EXCEPT !.disptop = IF to < 0 - sblines(t) THEN 0 - sblines(t)
                           ELSE IF to > 0 THEN 0 ELSE to]

TermScrollEv(rel, where) == [op |-> "term_scroll", rel |-> rel, where |-> where]

\* term_size(term, rows, cols, savelines): the screen keeps its top rows and
\* is filled up with blank lines, the display is cleared to blank lines
term_size(t, newrows, newcols, newsavelines) ==
  [t EXCEPT !.rows = newrows, !.cols = newcols, !.savelines = newsavelines,
            !.screen = [r \in 1..newrows |-> IF r <= t.rows THEN t.screen[r] ELSE 0],
            !.disptop = 0,
            !.disptext = [r \in 1..newrows |-> 0]]

\* term_data: the engine prints its next line below the last one printed,
\* scrolling the top line of a full screen into the scrollback
term_data(t) ==
  LET id == t.printed + 1
      free == {r \in 1..t.rows : t.screen[r] = 0}
  IN IF free # {}
       THEN [t EXCEPT !.printed = id,
                      !.screen[CHOOSE r \in free : \A q \in free : r <= q] = id]
       ELSE [t EXCEPT !.printed = id,
                      !.sb = IF t.savelines > 0 THEN Append(t.sb, t.screen[1]) ELSE t.sb,
                      !.screen = Append(Tail(t.screen), id)]

\* term_clrsb
term_clrsb(t) == [t EXCEPT !.sb = <<>>, !.disptop = 0]


(***************************************************************************)
(* TermcapParser                                                           *)
(***************************************************************************)
\* lines 180-185
set_buffer_size(i, width, height) == [i EXCEPT !.width = width, !.height = height]

\* a set_terminal_size that hands the model height and width the wrong way
\* round
set_terminal_size_swapped(i, t, st, width, height) ==
  [state |-> StateResizeDisplay(st, height, width),
   term |-> term_size(t, height, width, i.cfg.savelines),
   inst |-> set_buffer_size(i, i.height, width)]

\* lines 187-193, on the parser's inst, its engine and its model
set_terminal_size(i, t, st, width, height) ==
  [state |-> StateResizeDisplay(st, width, height),
   term |-> term_size(t, height, width, i.cfg.savelines),
   inst |-> set_buffer_size(i, i.height, width)]

\* term_init: an engine of no size yet, with its own copy of the configuration
term_init(cfg) ==
  [cols |-> 0, rows |-> 0, savelines |-> 0, cfg |-> cfg, sb |-> <<>>,
   screen |-> <<>>, disptop |-> 0, disptext |-> <<>>, printed |-> 0]

\* a State as constructed
NewState == [width |-> 0, height |-> 0, buffer_size |-> 0, palette |-> 0,
             rows |-> [r \in {} |-> NoRow(0)]]

\* line 119: "0 means enable and 1 means disable"
BidiEnabled(cfg) == cfg.bidi = 0

\* a constructor that initialises the engine before it fills in the
\* configuration
ConstructedEarlyInit ==
  LET i0 == [width |-> 0, height |-> 0,
             cfg |-> [ansi_colour |-> 0, xterm_256_colour |-> 0, bidi |-> 0,
                      arabicshaping |-> 0, bce |-> 0, savelines |-> 0, lfhascr |-> 0]]
      i1 == set_buffer_size(i0, initial_terminal_width, initial_buffer_height)
      i2 == [i1 EXCEPT !.cfg = [ansi_colour |-> 1, xterm_256_colour |-> 1, bidi |-> 1,
                                arabicshaping |-> 1, bce |-> 1,
                                savelines |-> initial_buffer_height - initial_terminal_height,
                                lfhascr |-> 0]]
  IN set_terminal_size(i2, term_init(i1.cfg), NewState,
                       initial_terminal_width, initial_terminal_height)
       @@ [enable_update_display |-> TRUE]

\* lines 95-147: the constructor; line 96 initialises the flag
Constructed ==
  LET i0 == [width |-> 0, height |-> 0,
             cfg |-> [ansi_colour |-> 0, xterm_256_colour |-> 0, bidi |-> 0,
                      arabicshaping |-> 0, bce |-> 0, savelines |-> 0, lfhascr |-> 0]]
      i1 == set_buffer_size(i0, initial_terminal_width, initial_buffer_height)
      i2 == [i1 EXCEPT !.cfg = [ansi_colour |-> 1, xterm_256_colour |-> 1, bidi |-> 1,
                                arabicshaping |-> 1, bce |-> 1,
                                savelines |-> initial_buffer_height - initial_terminal_height,
                                lfhascr |-> 0]]
  IN set_terminal_size(i2, term_init(i2.cfg), NewState,
                       initial_terminal_width, initial_terminal_height)
       @@ [enable_update_display |-> TRUE]

\* lines 211-216: the characters of the chain that starts at absolute_offset
RECURSIVE Characters(_, _)
Characters(chars, absolute_offset) ==
  <<chars[absolute_offset + 1].chr>>
    \o (IF chars[absolute_offset + 1].cc_next # 0
          THEN Characters(chars, absolute_offset + chars[absolute_offset + 1].cc_next)
          ELSE <<>>)

\* the index of the last cell of the chain that starts at absolute_offset
RECURSIVE ChainEnd(_, _)
ChainEnd(chars, absolute_offset) ==
  IF chars[absolute_offset + 1].cc_next # 0
    THEN ChainEnd(chars, absolute_offset + chars[absolute_offset + 1].cc_next)
    ELSE absolute_offset

\* a cell that takes its attribute where the walk of the chain ended
CopiedCellAttrOfLast(tl, off, row, col) ==
  SetCellEv("walk", off + row, col, Characters(tl.chars, col),
            tl.chars[ChainEnd(tl.chars, col) + 1].attr)

\* a cell written at the display row, the page offset forgotten
CopiedCellNoOffset(tl, off, row, col) ==
  SetCellEv("walk", row, col, Characters(tl.chars, col), tl.chars[col + 1].attr)

\* the values a cell's cc_next can hold, well-formed or not
CcNexts == (0 - MaxCells)..MaxCells

\* what a read outside the row's storage can yield: the end of the chain, or
\* a link to a neighbouring cell
StrayNexts == {0 - 1, 0, 1}

\* the cell at absolute_offset lies in the row's storage
InStorage(line, at) == at >= 0 /\ at < Len(line)

\* line 208: absolute_offset = col, on a row of any content
walk_start ==
  /\ wpc = "idle"
  /\ \E n \in 1..MaxCells :
       \E line \in [1..n -> CcNexts], col \in 0..(n - 1) :
         /\ cc' = line
         /\ wcol' = col
         /\ wabs' = col
  /\ wlen' = 0
  /\ wpc' = "walk"
  /\ UNCHANGED <<filterVars, sessionVars, classVars>>

\* lines 211-216: one iteration of the do-while, relative_offset being r
WalkOn(r) ==
  /\ wlen' = wlen + 1
  /\ wabs' = wabs + r
  /\ wpc' = IF r # 0 THEN "walk" ELSE "done"
  /\ UNCHANGED <<cc, wcol>>

\* lines 211-216: one iteration on a cell of the row
walk_step ==
  /\ wpc = "walk"
  /\ wlen < MaxSteps
  /\ InStorage(cc, wabs)
  /\ WalkOn(cc[wabs + 1])
  /\ UNCHANGED <<filterVars, sessionVars, classVars>>

\* lines 211-216: one iteration behind or before the row's storage: the read
\* faults, or yields whatever the memory there holds
walk_outside ==
  /\ wpc = "walk"
  /\ wlen < MaxSteps
  /\ ~InStorage(cc, wabs)
  /\ \/ /\ wpc' = "fault"
        /\ UNCHANGED <<cc, wcol, wabs, wlen>>
     \/ \E r \in StrayNexts : WalkOn(r)
  /\ UNCHANGED <<filterVars, sessionVars, classVars>>

WalkInit ==
  /\ cc = <<>>
  /\ wcol = 0
  /\ wabs = 0
  /\ wlen = 0
  /\ wpc = "idle"

WalkNext ==
  \/ walk_start
  \/ walk_step
  \/ walk_outside

\* lines 217-219: the cell written for column col of display row row
CopiedCell(tl, off, row, col) ==
  SetCellEv("walk", off + row, col, Characters(tl.chars, col), tl.chars[col + 1].attr)

\* lines 205-221: the cells of one row, column by column
CopiedCells(tl, cols, off, row) == [c \in 1..cols |-> CopiedCell(tl, off, row, c - 1)]

\* lines 202-222: the rows of one page, from row row on; t is the engine after
\* the scroll
RECURSIVE CopiedRows(_, _, _, _)
CopiedRows(t, off, row_count, row) ==
  IF row >= row_count THEN <<>>
  ELSE LET tl == NativeLine(t.disptext[row + 1], t.cols) IN
       <<SetAttributesEv("walk", off + row, tl.lattr)>>
         \o CopiedCells(tl, t.cols, off, row)
         \o CopiedRows(t, off, row_count, row + 1)

\* line 198: term_scroll(inst->term, -1, offset), with the painting it causes
ScrollEvs(enabled, t, where) ==
  <<TermScrollEv(0 - 1, where)>> \o RenderEvs(enabled, Scrolled(t, 0 - 1, where), 0)

\* lines 195-223: what copy_term_content_to_cache(offset, row_count) does, in
\* order
CopyEvs(enabled, t, off, row_count) ==
  ScrollEvs(enabled, t, off)
    \o CopiedRows(term_update(Scrolled(t, 0 - 1, off)), off, row_count, 0)

\* a call other than get_state has come between two get_state calls
Disturbed ==
  /\ lastState' = <<>>
  /\ repeated' = FALSE
  /\ switchedOn' = FALSE

\* lines 173-178: term_data takes the bytes, the engine prints a line and
\* notifies what it paints
feed ==
  /\ spc = "idle"
  /\ term.printed < MaxLines
  /\ LET t == term_data(term)
         evs == RenderEvs(enable_update_display, t, 0)
     IN /\ term' = term_update(t)
        /\ state' = Apply(state, evs, 1)
        /\ log' = <<[op |-> "term_data"]>> \o evs
  /\ palette' = (term.printed + 1) % 2
  /\ Disturbed
  /\ UNCHANGED <<enable_update_display, inst, spc, offset, buffer_line_count>>
  /\ UNCHANGED <<filterVars, classVars, walkVars>>

\* lines 187-193, called by the host
resize ==
  /\ spc = "idle"
  /\ \E width \in {MaxSize}, height \in 1..MaxSize :
       LET r == set_terminal_size(inst, term, state, width, height) IN
         /\ inst' = r.inst
         /\ term' = r.term
         /\ state' = r.state
         /\ log' = <<[op |-> "resize_display", width |-> width, height |-> height],
                     [op |-> "term_size", rows |-> height, cols |-> width]>>
  /\ Disturbed
  /\ UNCHANGED <<enable_update_display, palette, spc, offset, buffer_line_count>>
  /\ UNCHANGED <<filterVars, classVars, walkVars>>

\* the sizes a host may ask for, positive or not
Sizes == (0 - MaxSize)..MaxSize

\* lines 187-193, called by the host with any sizes
resize_request ==
  /\ spc = "idle"
  /\ \E width \in Sizes, height \in Sizes :
       LET r == set_terminal_size(inst, term, state, width, height) IN
         /\ inst' = r.inst
         /\ term' = r.term
         /\ state' = r.state
         /\ log' = <<[op |-> "resize_display", width |-> width, height |-> height],
                     [op |-> "term_size", rows |-> height, cols |-> width]>>
  /\ Disturbed
  /\ UNCHANGED <<enable_update_display, palette, spc, offset, buffer_line_count>>
  /\ UNCHANGED <<filterVars, classVars, walkVars>>

\* lines 255-259
replace_standalone_linefeeds ==
  /\ spc = "idle"
  /\ \E enable \in BOOLEAN :
       term' = [term EXCEPT !.cfg.lfhascr = IF enable THEN 1 ELSE 0]
  /\ log' = <<[op |-> "replace_standalone_linefeeds"]>>
  /\ UNCHANGED <<enable_update_display, inst, palette, state, spc, offset,
                 buffer_line_count, lastState, repeated, switchedOn>>
  /\ UNCHANGED <<filterVars, classVars, walkVars>>

\* lines 261-265
clear_buffer ==
  /\ spc = "idle"
  /\ term' = term_clrsb(term)
  /\ log' = <<[op |-> "term_clrsb"]>>
  /\ Disturbed
  /\ UNCHANGED <<enable_update_display, inst, palette, state, spc, offset,
                 buffer_line_count>>
  /\ UNCHANGED <<filterVars, classVars, walkVars>>

\* the host switches incremental sync on or off
set_enable_update_display ==
  /\ spc = "idle"
  /\ enable_update_display' = ~enable_update_display
  /\ log' = <<>>
  /\ switchedOn' = (switchedOn \/ (lastState # <<>> /\ ~enable_update_display))
  /\ UNCHANGED <<lastState, repeated>>
  /\ UNCHANGED <<inst, palette, term, state, spc, offset, buffer_line_count>>
  /\ UNCHANGED <<filterVars, classVars, walkVars>>

\* the code points a notification carries: A, B, X, combining acute
CodePoints == {65, 66, 88, 769}

RunStrings == UNION {[1..n -> CodePoints] : n \in 1..MaxRun}

\* lines 267-289: the first notification of a session, a run of the engine's
\* own making
update_display ==
  /\ spc = "idle"
  /\ log = <<>>
  /\ \E x \in 0..2, y \in 0..1, str \in RunStrings, attr \in {5, 6} :
       LET evs == UpdateDisplayEvs(enable_update_display, x, y, str, attr, 1) IN
         /\ state' = Apply(state, evs, 1)
         /\ log' = <<UpdateDisplayEv(x, y, str, attr, 1)>> \o evs
  /\ Disturbed
  /\ UNCHANGED <<enable_update_display, inst, palette, term, spc, offset,
                 buffer_line_count>>
  /\ UNCHANGED <<filterVars, classVars, walkVars>>

\* a get_state that resizes the model to the scrollback length of the call
\* before
get_state_begin_stale ==
  /\ spc = "idle"
  /\ LET n == sblines(term)
         evs == RenderEvs(enable_update_display, term, 0)
     IN /\ buffer_line_count' = n
        /\ state' = Apply(StateSetPalette(StateResize(state, term.cols, term.rows,
                                                      buffer_line_count),
                                          palette), evs, 1)
        /\ term' = term_update(term)
        /\ offset' = 0 - n
        /\ log' = <<[op |-> "resize", width |-> term.cols, height |-> term.rows,
                     buffer_size |-> buffer_line_count],
                    [op |-> "set_palette", palette |-> palette],
                    [op |-> "term_update"]>> \o evs
  /\ spc' = "pages"
  /\ UNCHANGED <<enable_update_display, inst, palette, lastState, repeated, switchedOn>>
  /\ UNCHANGED <<filterVars, classVars, walkVars>>

\* a get_state that does not make the engine render before the walk
get_state_begin_unrendered ==
  /\ spc = "idle"
  /\ LET n == sblines(term)
     IN /\ buffer_line_count' = n
        /\ state' = StateSetPalette(StateResize(state, term.cols, term.rows, n), palette)
        /\ offset' = 0 - n
        /\ log' = <<[op |-> "resize", width |-> term.cols, height |-> term.rows,
                     buffer_size |-> n],
                    [op |-> "set_palette", palette |-> palette]>>
  /\ spc' = "pages"
  /\ UNCHANGED <<enable_update_display, inst, palette, term, lastState, repeated,
                 switchedOn>>
  /\ UNCHANGED <<filterVars, classVars, walkVars>>

\* lines 228-238: the model is resized, the palette pushed, the engine painted,
\* the walk starts at the top of the scrollback
get_state_begin ==
  /\ spc = "idle"
  /\ LET n == sblines(term)
         evs == RenderEvs(enable_update_display, term, 0)
     IN /\ buffer_line_count' = n
        /\ state' = Apply(StateSetPalette(StateResize(state, term.cols, term.rows, n),
                                          palette), evs, 1)
        /\ term' = term_update(term)
        /\ offset' = 0 - n
        /\ log' = <<[op |-> "resize", width |-> term.cols, height |-> term.rows,
                     buffer_size |-> n],
                    [op |-> "set_palette", palette |-> palette],
                    [op |-> "term_update"]>> \o evs
  /\ spc' = "pages"
  /\ UNCHANGED <<enable_update_display, inst, palette, lastState, repeated, switchedOn>>
  /\ UNCHANGED <<filterVars, classVars, walkVars>>

\* what a get_state step does with the events of one copy
Copy(evs, where) ==
  /\ state' = Apply(state, evs, 1)
  /\ term' = term_update(Scrolled(term, 0 - 1, where))
  /\ log' = log \o evs

\* a loop condition that stops one page early
PageLeftStrict(off, rows) == off < 0 - rows

\* line 238: offset <= -inst->term->rows
PageLeft(off, rows) == off <= 0 - rows

\* lines 238-241: one full page
get_state_page ==
  /\ spc = "pages"
  /\ PageLeft(offset, term.rows)
  /\ Copy(CopyEvs(enable_update_display, term, offset, term.rows), offset)
  /\ offset' = offset + term.rows
  /\ UNCHANGED <<enable_update_display, inst, palette, spc, buffer_line_count,
                 lastState, repeated, switchedOn>>
  /\ UNCHANGED <<filterVars, classVars, walkVars>>

\* line 243: the rest, less than a page
get_state_remainder ==
  /\ spc = "pages"
  /\ ~PageLeft(offset, term.rows)
  /\ Copy(CopyEvs(enable_update_display, term, offset, 0 - offset), offset)
  /\ spc' = "restore"
  /\ UNCHANGED <<enable_update_display, inst, palette, offset, buffer_line_count,
                 lastState, repeated, switchedOn>>
  /\ UNCHANGED <<filterVars, classVars, walkVars>>

\* a get_state that returns without scrolling back
get_state_return_unrestored ==
  /\ spc = "restore"
  /\ spc' = "idle"
  /\ repeated' = (lastState # <<>>)
  /\ lastState' = IF lastState # <<>> THEN lastState ELSE <<state>>
  /\ UNCHANGED <<enable_update_display, inst, palette, term, state, offset,
                 buffer_line_count, log, switchedOn>>
  /\ UNCHANGED <<filterVars, classVars, walkVars>>

\* lines 250-252: back to the live screen, and return
get_state_return ==
  /\ spc = "restore"
  /\ Copy(ScrollEvs(enable_update_display, term, 0), 0)
  /\ spc' = "idle"
  /\ repeated' = (lastState # <<>>)
  /\ lastState' = IF lastState # <<>> THEN lastState ELSE <<state'>>
  /\ UNCHANGED <<enable_update_display, inst, palette, offset, buffer_line_count,
                 switchedOn>>
  /\ UNCHANGED <<filterVars, classVars, walkVars>>

SessionInit ==
  /\ enable_update_display = Constructed.enable_update_display
  /\ inst = Constructed.inst
  /\ term = Constructed.term
  /\ state = Constructed.state
  /\ palette = 0
  /\ spc = "idle"
  /\ offset = 0
  /\ buffer_line_count = 0
  /\ log = <<>>
  /\ lastState = <<>>
  /\ repeated = FALSE
  /\ switchedOn = FALSE

SessionNext ==
  \/ feed
  \/ resize
  \/ clear_buffer
  \/ set_enable_update_display
  \/ get_state_begin
  \/ get_state_page
  \/ get_state_remainder
  \/ get_state_return


(***************************************************************************)
(* Input Filter: what the claims speak of                                  *)
(***************************************************************************)
\* the indices (from 1) of the introducers a left-to-right scan of d finds
\* from index i on, a scan that resumes 8 bytes after each one it finds
RECURSIVE Introducers(_, _)
Introducers(d, i) ==
  IF i > Len(d) THEN {}
  ELSE IF d[i] = ESC /\ i < Len(d) /\ d[i + 1] = CharP
         THEN {i} \cup Introducers(d, i + 8)
         ELSE Introducers(d, i + 1)

\* every introducer found has 8 bytes from its ESC to the end of the chunk
WholeWindows(d) == \A i \in Introducers(d, 1) : i + 7 <= Len(d)

\* d without the 8 bytes of every introducer found
RECURSIVE KeptFrom(_, _)
KeptFrom(d, j) ==
  IF j > Len(d) THEN <<>>
  ELSE IF \E i \in Introducers(d, 1) : i <= j /\ j <= i + 7
         THEN KeptFrom(d, j + 1)
         ELSE <<d[j]>> \o KeptFrom(d, j + 1)

\* the chunks term_data received, one after the other
RECURSIVE Flatten(_)
Flatten(ss) == IF ss = <<>> THEN <<>> ELSE Head(ss) \o Flatten(Tail(ss))

\* "ab" ESC "P" and six bytes, "cd"
ExampleChunk == Chunk(12, {3}, {3})

\* C1: when every introducer the scan finds has its 8 bytes inside the chunk,
\* data_input reads nothing behind the chunk, returns, and the engine has
\* then received the chunk without the 8 bytes of each introducer, in order.
C1_WindowsRemoved ==
  WholeWindows(data) =>
    /\ fpc # "fault"
    /\ lastRead < len
    /\ fpc = "done" => Flatten(fed) = KeptFrom(data, 1)

\* C1 witness: the chunk "ab" ESC "P" <6 bytes> "cd" has been forwarded as
\* "ab" and then "cd".
C1_Witness ==
  /\ fpc = "done"
  /\ data = ExampleChunk
  /\ fed = << <<97, 98>>, <<99, 100>> >>

\* the chunk ends with ESC 'P' and the scan gets to that ESC
EndsWithIntroducer(d) ==
  /\ Len(d) >= 2
  /\ d[Len(d) - 1] = ESC
  /\ d[Len(d)] = CharP
  /\ (Len(d) - 1) \in Introducers(d, 1)

\* C2: when ESC 'P' are the last two bytes of the chunk no skip is applied:
\* data_input ends by returning, and the engine has received the whole chunk.
C2_TrailingIntroducerForwarded ==
  (EndsWithIntroducer(data) /\ fpc \in {"done", "fault"}) =>
    (fpc = "done" /\ Flatten(fed) = data)

\* C3: data_input never fails: no index at or behind len is read, and every
\* slice handed to the engine lies inside the chunk.
C3_FilterNeverFails ==
  /\ fpc # "fault"
  /\ lastRead < len
  /\ \A k \in 1..Len(slices) :
       /\ slices[k][1] >= 0
       /\ slices[k][2] >= 0
       /\ slices[k][1] + slices[k][2] <= len


(***************************************************************************)
(* Incremental updates and snapshots: what the claims speak of             *)
(***************************************************************************)
IsSetCell(e) == e.op = "set_cell"

IsWalkCell(e) == e.op = "set_cell" /\ e.by = "walk"

IsWalkRow(e) == e.op = "set_attributes" /\ e.by = "walk"

IsScroll(e) == e.op = "term_scroll"

\* the indices of str at which a cell starts: the first code point and every
\* later one that is no combining character
CellStarts(str) == {i \in 1..Len(str) : i = 1 \/ ~is_combining_character(str[i])}

\* the k-th (from 1) group of str: from the k-th start up to the next one
Group(str, k) ==
  LET members == {i \in 1..Len(str) : Cardinality({j \in CellStarts(str) : j <= i}) = k}
      first == CHOOSE i \in members : \A j \in members : i <= j
  IN [n \in 1..Cardinality(members) |-> str[first + n - 1]]

\* an update_display call has been made and is what the log shows
Notified == Len(log) > 0 /\ log[1].op = "update_display"

\* C4: with incremental sync enabled, update_display(x, y, str, attr, lattr)
\* sets the row attribute of y and writes the groups of str, a group starting
\* at the first code point and at every later one that is no combining
\* character, as the cells (y, x), (y, x + 1), ... with attribute attr, and
\* nothing else.
C4_GroupsWritten ==
  (Notified /\ enable_update_display) =>
    LET n == log[1]
        groups == Cardinality(CellStarts(n.str))
        cells == SelectSeq(log, IsSetCell)
    IN /\ log[2] = SetAttributesEv("sync", n.y, n.lattr)
       /\ Len(log) = 2 + groups
       /\ cells = [k \in 1..groups |->
                     SetCellEv("sync", n.y, n.x + k - 1, Group(n.str, k), n.attr)]
       /\ Flatten([k \in 1..Len(cells) |-> cells[k].chars]) = n.str
       /\ state.rows[n.y].lattr = n.lattr
       /\ \A k \in 1..groups :
            state.rows[n.y].cells[n.x + k] = [chars |-> Group(n.str, k), attr |-> n.attr]

\* C4 witness: A, B, combining acute notified at column 0 has been written as
\* A in column 0 and B + acute in column 1, two cells.
C4_Witness ==
  /\ Notified
  /\ log[1].str = <<65, 66, 769>>
  /\ log[1].x = 0
  /\ SelectSeq(log, IsSetCell)
       = <<SetCellEv("sync", log[1].y, 0, <<65>>, log[1].attr),
           SetCellEv("sync", log[1].y, 1, <<66, 769>>, log[1].attr)>>

OnlyMarks(chars) == \A i \in 1..Len(chars) : is_combining_character(chars[i])

\* C5 as stated: every cell written has code points, and none is made of
\* combining characters only.
C5_NoStandaloneMarks ==
  \A k \in 1..Len(log) :
    IsSetCell(log[k]) => (log[k].chars # <<>> /\ ~OnlyMarks(log[k].chars))

\* C5: every cell written, by update_display or by the walk of get_state, has
\* code points; a cell update_display writes holds combining characters
\* behind its first code point only, and starts with a combining character
\* only when it is the first cell of a run that starts with one.
C5_CellsNotEmpty ==
  \A k \in 1..Len(log) :
    IsSetCell(log[k]) =>
      /\ log[k].chars # <<>>
      /\ log[k].by = "sync" =>
           /\ OnlyMarks(Tail(log[k].chars))
           /\ is_combining_character(log[k].chars[1]) =>
                /\ k > 2
                /\ log[k - 1].op = "set_attributes"
                /\ log[k - 2].op = "update_display"
                /\ log[k - 2].str[1] = log[k].chars[1]

\* C5 witness: update_display has written the first cell of a run that starts
\* with a combining character, and the walk has written cells in the same call.
C5_Witness ==
  /\ \E k \in 1..Len(log) :
       IsSetCell(log[k]) /\ log[k].by = "sync" /\ OnlyMarks(log[k].chars)
  /\ \E k \in 1..Len(log) : IsWalkCell(log[k])

\* a get_state call has returned and is what the log shows
Returned == spc = "idle" /\ Len(log) > 0 /\ log[1].op = "resize"

\* the offsets the engine was scrolled to, in order
Scrolls == LET s == SelectSeq(log, IsScroll) IN [k \in 1..Len(s) |-> s[k].where]

\* the rows the walk set the attribute of, in order
WalkRows == LET s == SelectSeq(log, IsWalkRow) IN [k \in 1..Len(s) |-> s[k].row]

\* the rows the walk wrote between the j-th scroll and the next
RECURSIVE RowsOfCopy(_, _, _)
RowsOfCopy(k, j, seen) ==
  IF k > Len(log) THEN 0
  ELSE IF IsScroll(log[k]) THEN
         (IF seen = j THEN 0 ELSE RowsOfCopy(k + 1, j, seen + 1))
  ELSE (IF seen = j /\ IsWalkRow(log[k]) THEN 1 ELSE 0) + RowsOfCopy(k + 1, j, seen)

\* C6: with N rows of scrollback and a screen H high, get_state copies
\* N \div H pages of H rows at the offsets -N, -N + H, ... and then once the
\* N % H rows that are left; the rows copied are -N .. -1, each once.
C6_PageWalk ==
  Returned =>
    LET N == buffer_line_count
        H == term.rows
        full == N \div H
    IN /\ Scrolls = [k \in 1..full |-> (k - 1) * H - N] \o <<0 - (N % H), 0>>
       /\ \A j \in 1..full : RowsOfCopy(1, j, 0) = H
       /\ RowsOfCopy(1, full + 1, 0) = N % H
       /\ RowsOfCopy(1, full + 2, 0) = 0
       /\ WalkRows = [k \in 1..N |-> k - 1 - N]

\* C6 witness: a walk of a full page and a shorter one after it.
C6_Witness ==
  /\ Returned
  /\ buffer_line_count > term.rows
  /\ buffer_line_count % term.rows # 0

\* what the model holds in row r is what the engine holds there
RowMatches(r) ==
  /\ state.rows[r].lattr = LineLattr(LineAt(term, r))
  /\ \A c \in 0..(term.cols - 1) :
       state.rows[r].cells[c + 1] = [chars |-> Cluster(LineAt(term, r), c),
                                     attr |-> LineAttr(LineAt(term, r), c)]

\* C7 as stated: when get_state has returned, every row of the scrollback and
\* of the live screen has been written from the engine.
C7_WholeModelWritten ==
  Returned => \A r \in (0 - buffer_line_count)..(term.rows - 1) : RowMatches(r)

\* C7: when get_state has returned, its walk has written every row of the
\* scrollback, -N .. -1, and no row of the live screen; with incremental sync
\* disabled the call has written nothing to a row of the live screen.
C7_ScrollbackWritten ==
  Returned =>
    /\ \A r \in (0 - buffer_line_count)..(0 - 1) :
         /\ \E k \in 1..Len(log) : IsWalkRow(log[k]) /\ log[k].row = r
         /\ \A c \in 0..(term.cols - 1) :
              \E k \in 1..Len(log) : IsWalkCell(log[k]) /\ log[k].row = r /\ log[k].col = c
    /\ \A k \in 1..Len(log) : (IsWalkRow(log[k]) \/ IsWalkCell(log[k])) => log[k].row < 0
    /\ ~enable_update_display =>
         \A k \in 1..Len(log) :
           log[k].op \in {"set_cell", "set_attributes"} => log[k].row < 0

\* C7 witness: get_state has returned with incremental sync disabled, the
\* scrollback is written and the first row of the live screen is not what the
\* engine holds.
C7_Witness ==
  /\ Returned
  /\ ~enable_update_display
  /\ buffer_line_count > 0
  /\ ~RowMatches(0)

\* the offset the engine was last scrolled to before the k-th event
RECURSIVE ScrolledTo(_)
ScrolledTo(k) ==
  IF k < 1 THEN 1
  ELSE IF IsScroll(log[k]) THEN log[k].where ELSE ScrolledTo(k - 1)

\* C8: every cell the walk writes is written after the engine was scrolled to
\* the page of its row, and holds the base character of the engine's cell,
\* the combining characters of its chain in order, and the attribute of the
\* base cell; when get_state has returned, the scrollback rows of the model
\* are those of the engine.
C8_SnapshotContent ==
  /\ \A k \in 1..Len(log) :
       IsWalkCell(log[k]) =>
         LET o == ScrolledTo(k)
             id == LineAt(term, log[k].row)
         IN /\ o <= log[k].row
            /\ log[k].row < o + term.rows
            /\ log[k].chars = Cluster(id, log[k].col)
            /\ log[k].attr = LineAttr(id, log[k].col)
  /\ \A k \in 1..Len(log) :
       IsWalkRow(log[k]) => log[k].lattr = LineLattr(LineAt(term, log[k].row))
  /\ Returned => \A r \in (0 - buffer_line_count)..(0 - 1) : RowMatches(r)

\* C8 witness: the walk has copied a cell with a chain of two combining
\* characters.
C8_Witness ==
  /\ Returned
  /\ \E k \in 1..Len(log) : IsWalkCell(log[k]) /\ Len(log[k].chars) = 3

\* C9: when get_state returns, the last scroll it asked of the engine is the
\* one to offset 0, after every copy, and the engine shows the live screen.
C9_ScrollRestored ==
  Returned =>
    /\ Scrolls # <<>>
    /\ Scrolls[Len(Scrolls)] = 0
    /\ \A k \in 1..Len(log) :
         (IsWalkCell(log[k]) \/ IsWalkRow(log[k])) =>
           \E m \in (k + 1)..Len(log) : IsScroll(log[m]) /\ log[m].where = 0
    /\ term.disptop = 0

\* C9 witness: get_state has returned from a walk that ended inside the
\* scrollback.
C9_Witness ==
  /\ Returned
  /\ buffer_line_count % term.rows # 0

\* C10 as stated: of two get_state calls with no feed, resize or clear_buffer
\* between them the second leaves the model as the first left it.
C10_SnapshotRepeatable ==
  (spc = "idle" /\ repeated) => state = lastState[1]

\* C10: of two get_state calls with no feed, resize or clear_buffer between
\* them, and incremental sync not switched on between them, the second leaves
\* the model as the first left it: geometry, palette, row attributes and cells.
C10_SnapshotIdempotent ==
  (spc = "idle" /\ repeated /\ ~switchedOn) => state = lastState[1]

\* C10 witness: get_state has returned twice in a row, with scrollback and
\* with incremental sync enabled all along.
C10_Witness ==
  /\ spc = "idle"
  /\ repeated
  /\ ~switchedOn
  /\ buffer_line_count > 1
  /\ enable_update_display

IsWrite(ev) == ev.op \in {"set_cell", "set_attributes"}

IsDeclaration(ev) == ev.op \in {"resize", "resize_display"}

\* C11: in every call, the model's geometry is declared before the writes of
\* the call, and every set_cell and set_attributes of the call has its row in
\* -buffer_size .. height - 1, and every set_cell its column in 0 .. width - 1,
\* of the geometry last declared.
C11_WritesInsideGeometry ==
  \A k \in 1..Len(log) :
    IsWrite(log[k]) =>
      /\ \A m \in (k + 1)..Len(log) : ~IsDeclaration(log[m])
      /\ log[k].row >= 0 - state.buffer_size
      /\ log[k].row < state.height
      /\ IsSetCell(log[k]) => (log[k].col >= 0 /\ log[k].col < state.width)

\* C11 witness: a get_state has returned that wrote the scrollback by its walk
\* and the last column of the live screen by update_display, after a resize.
C11_Witness ==
  /\ Returned
  /\ state.width = MaxSize
  /\ \E k \in 1..Len(log) : IsWalkCell(log[k]) /\ log[k].row = 0 - state.buffer_size
  /\ \E k \in 1..Len(log) :
       IsSetCell(log[k]) /\ log[k].by = "sync" /\ log[k].col = state.width - 1

\* C12: after the constructor and after every set_terminal_size(width, height)
\* the tracked geometry is the one last given to the engine: inst->width is
\* width and inst->height is height (80 x 24 after the constructor).
C12_TrackedGeometry ==
  /\ inst.width = term.cols
  /\ inst.height = term.rows

\* C13: a set_terminal_size(width, height) with width <= 0 or height <= 0 is
\* rejected: term_size is not called for it, and engine and tracked geometry
\* stay as they were.
C13_NonPositiveRejected ==
  [][(/\ Len(log') > 0
      /\ log'[1].op = "resize_display"
      /\ (log'[1].width <= 0 \/ log'[1].height <= 0))
       => (/\ \A k \in 1..Len(log') : log'[k].op # "term_size"
           /\ term' = term
           /\ inst' = inst)]_vars

\* C14: the constructor enables incremental sync; while it is disabled,
\* update_display(x, y, str, attr, lattr) writes no cell and no row attribute
\* and leaves the model as it was, whatever its arguments.
C14_DisabledIsNoOp ==
  /\ Constructed.enable_update_display
  /\ (Notified /\ ~enable_update_display) =>
       /\ Len(log) = 1
       /\ state = Constructed.state

\* C14 witness: A, B, combining acute has been notified while incremental
\* sync was disabled.
C14_Witness ==
  /\ Notified
  /\ ~enable_update_display
  /\ log[1].str = <<65, 66, 769>>

\* the settings of C15 other than bidi: ANSI and 256 colours on,
\* background-colour erase on, line feed implies CR off
ColoursEraseLinefeed(cfg) ==
  /\ cfg.ansi_colour = 1
  /\ cfg.xterm_256_colour = 1
  /\ cfg.bce = 1
  /\ cfg.lfhascr = 0

\* the constructor has pushed 80 x 24 to the model, and the model's display
\* geometry is the engine's
GeometryPushed ==
  /\ Constructed.state.width = initial_terminal_width
  /\ Constructed.state.height = initial_terminal_height
  /\ state.width = term.cols
  /\ state.height = term.rows

\* C15 as stated: after the constructor and after every feed, resize,
\* clear_buffer and get_state the engine's configuration has the colours on,
\* bidirectional text enabled, background-colour erase on and line feed
\* implies CR off, and 80 x 24 was pushed to the model.
C15_StartConfiguration ==
  /\ ColoursEraseLinefeed(term.cfg)
  /\ ColoursEraseLinefeed(inst.cfg)
  /\ BidiEnabled(term.cfg)
  /\ BidiEnabled(inst.cfg)
  /\ GeometryPushed

\* C15: as stated, but with bidirectional text and Arabic shaping disabled
\* (cfg.bidi and cfg.arabicshaping are 1).
C15_StartConfigurationBidiOff ==
  /\ ColoursEraseLinefeed(term.cfg)
  /\ ColoursEraseLinefeed(inst.cfg)
  /\ ~BidiEnabled(term.cfg)
  /\ ~BidiEnabled(inst.cfg)
  /\ term.cfg.arabicshaping = 1
  /\ inst.cfg.arabicshaping = 1
  /\ GeometryPushed

\* C15 witness: lines were fed, the terminal resized and a get_state with
\* scrollback has returned.
C15_Witness ==
  /\ Returned
  /\ buffer_line_count > 0
  /\ term.cols = MaxSize

\* the five ranges of C16: 0300-036F, 1DC0-1DE6, 1DFC-1DFF, 20D0-20F0,
\* FE20-FE26
CombiningRanges ==
  (768..879) \cup (7616..7654) \cup (7676..7679) \cup (8400..8432) \cup (65056..65062)

\* the code points right below and right above each range
RangeNeighbours == {767, 880, 7615, 7655, 7675, 7680, 8399, 8433, 65055, 65063}

\* C16: is_combining_character is true of the code points of the five ranges
\* and false of every other code point; it is false below 0300 and right
\* below and right above each range.
C16_CombiningRanges ==
  cp >= 0 =>
    /\ combining = (cp \in CombiningRanges)
    /\ cp < 768 => ~combining
    /\ cp \in RangeNeighbours => ~combining

\* C16 witness: FE26, the last code point of the last range, was classified
\* as combining.
C16_Witness ==
  /\ cp = 65062
  /\ combining

\* C17: data_input ends for every chunk: the scan index, which grows by at
\* least one in every step, never passes len, so that the loop ends after at
\* most len steps, and term_data is called at most len + 1 times.
C17_ScanEnds ==
  /\ pos <= len
  /\ fpc \in {"idle", "loop", "done"}
  /\ Len(slices) <= len + 1

\* C18: the walk of a chain ends at cc_next 0 or after at most as many steps
\* as the row has cells, whatever the chain holds, and reads no cell outside
\* the row's storage.
C18_ChainWalkBounded ==
  /\ wpc # "fault"
  /\ wlen <= Len(cc)
  /\ wpc = "walk" => InStorage(cc, wabs)

\* a get_state call is in progress or was the last call
InSnapshot == spc \in {"pages", "restore"} \/ Returned

\* the offsets of the page copies made so far: the scrolls but the restoring
\* one
PageScrolls ==
  IF spc = "idle" /\ Scrolls # <<>> THEN SubSeq(Scrolls, 1, Len(Scrolls) - 1) ELSE Scrolls

\* C19: in a get_state call, first the model is resized to the engine's width,
\* height and scrollback length, then the palette is pushed, then the engine
\* renders; only then come the page copies, each after a scroll to its offset,
\* the offsets increasing from minus the scrollback length read at first;
\* last comes the scroll back to 0.
C19_OrderOfEffects ==
  InSnapshot =>
    /\ Len(log) >= 3
    /\ log[1] = [op |-> "resize", width |-> term.cols, height |-> term.rows,
                 buffer_size |-> buffer_line_count]
    /\ buffer_line_count = sblines(term)
    /\ log[2] = [op |-> "set_palette", palette |-> palette]
    /\ log[3] = [op |-> "term_update"]
    /\ \A k \in 1..Len(log) :
         (IsScroll(log[k]) \/ IsWalkRow(log[k]) \/ IsWalkCell(log[k])) => k > 3
    /\ \A k \in 1..Len(log) :
         (IsWalkRow(log[k]) \/ IsWalkCell(log[k])) =>
           /\ ScrolledTo(k) <= log[k].row
           /\ ScrolledTo(k) >= 0 - buffer_line_count
           /\ \E j \in 1..Len(PageScrolls) : PageScrolls[j] = ScrolledTo(k)
    /\ PageScrolls # <<>> => PageScrolls[1] = 0 - buffer_line_count
    /\ \A i \in 1..Len(PageScrolls) : \A j \in (i + 1)..Len(PageScrolls) :
         PageScrolls[i] < PageScrolls[j]
    /\ spc = "restore" => PageScrolls # <<>>
    /\ Returned => (Len(Scrolls) >= 2 /\ Scrolls[Len(Scrolls)] = 0)

\* C19 witness: a get_state has returned that copied two pages or more, with
\* incremental sync enabled.
C19_Witness ==
  /\ Returned
  /\ enable_update_display
  /\ Len(PageScrolls) >= 2
  /\ \E k \in 1..Len(log) : IsWalkCell(log[k])

FilterInit ==
  /\ data = <<>>
  /\ len = 0
  /\ pos = 0
  /\ prev = 0
  /\ fpc = "idle"
  /\ slices = <<>>
  /\ fed = <<>>
  /\ oob = <<>>
  /\ lastRead = -1

FilterNext ==
  \/ data_input_call
  \/ data_input_loop
  \/ data_input_overrun
  \/ data_input_fault
  \/ data_input_return

Init == FilterInit /\ SessionInit /\ ClassInit /\ WalkInit

SpecFilter == Init /\ [][FilterNext]_vars

Spec == Init /\ [][SessionNext]_vars

\* the host switches incremental sync before the first notification
switch_before_update ==
  /\ log = <<>>
  /\ set_enable_update_display

UpdateNext ==
  \/ update_display
  \/ switch_before_update

SpecUpdate == Init /\ [][UpdateNext]_vars

ResizeNext ==
  \/ resize_request
  \/ replace_standalone_linefeeds

SpecResize == Init /\ [][ResizeNext]_vars

SpecClassify == Init /\ [][classify]_vars

SpecWalk == Init /\ [][WalkNext]_vars

====
